---- MODULE Spec2Model ----
(***************************************************************************)
(* Schnorr signatures with a nonce registry, as driven by SchnorrSimulator *)
(* (src/src/test/schnorr-simulator.ts).  The Compact contract behind       *)
(* contract.circuits.* is not part of the sources; its circuits are        *)
(* modelled from the specification (sections 4.1 - 4.7) and from what the  *)
(* tests observe of them.  The elliptic curve is modelled as the cyclic    *)
(* group Z_curveOrder of prime order: a point is its discrete logarithm    *)
(* scaled by the generator, point addition is addition modulo the order.   *)
(***************************************************************************)
EXTENDS Integers, Sequences, FiniteSets, TLC

VARIABLES
    sharedContract,     \* static SchnorrSimulator.sharedContract is non-null
    sharedLedgerState,  \* static SchnorrSimulator.sharedLedgerState
    circuitContext,     \* this.circuitContext of every simulator instance
    issued,             \* every signature returned by a sign operation
    last,               \* the last simulator call: the simulator, what it was
                        \* given, the state it started from, what it returned
    took                \* per simulator and signature: how many verify calls
                        \* of that simulator have returned true for it

vars == <<sharedContract, sharedLedgerState, circuitContext, issued, last, took>>

----------------------------------------------------------------------------
\* Bounds of the model.

\* sign operations are offered until MaxSigs signatures have been returned
MaxSigs == 2

\* the simulator instances a run may construct
Sims == {"s1", "s2"}

Null == [null |-> TRUE]

----------------------------------------------------------------------------
\* Scalar / point arithmetic (spec 4.1).

curveOrder == 7

\* the base point
G == 3

ec_mul(k, P) == (k * P) % curveOrder

ec_add(P, Q) == (P + Q) % curveOrder

\* utils: 32 bytes of 0x11, here a valid non-zero scalar
FAIRWAY_SECRET_KEY == 2

\* secret keys a simulator is constructed with: the zero key, the authority
\* key and one other valid key
Keys == {0, FAIRWAY_SECRET_KEY, FAIRWAY_SECRET_KEY + 1}

\* the values a randomBytes(32) call returns in the runs explored
randomBytes == {0}

\* the key of 32 bytes 0xFF: the largest key value, above curveOrder
MaxKey == 15

\* derive_pk circuit: sk * G, InvalidKey for sk = 0.  A key at or above
\* curveOrder is not refused (the tests sign with the all-0xFF key and with
\* random 32-byte keys); it acts as the scalar sk mod curveOrder.
derive_pk(sk) ==
    IF sk = 0
    THEN [ok |-> FALSE, result |-> 0]
    ELSE [ok |-> TRUE, result |-> ec_mul(sk % curveOrder, G)]

----------------------------------------------------------------------------
\* Field encoder (spec 4.2).

\* width of a Bytes<32> value, scaled down
BYTES32 == 2

Min(a, b) == IF a <= b THEN a ELSE b

\* a stringToBytes32 that keeps the last 32 bytes of a longer input
stringToBytes32_last(str) ==
    [i \in 1 .. BYTES32 |->
        IF Len(str) > BYTES32 THEN str[Len(str) - BYTES32 + i]
        ELSE IF i <= Len(str) THEN str[i] ELSE 0]

\* new Uint8Array(32); bytes.set(strBytes.slice(0, min(len, 32)))
stringToBytes32(str) ==
    [i \in 1 .. BYTES32 |->
        IF i <= Min(Len(str), BYTES32) THEN str[i] ELSE 0]

Ones(n) == [i \in 1 .. n |-> 1]

\* message strings: the empty one and one longer than 32 bytes
Msgs == {<<>>, Ones(BYTES32) \o <<2>>}

RECURSIVE BytesToField(_)
\* big-endian reading of a byte string as an integer
BytesToField(b) ==
    IF b = <<>> THEN 0
    ELSE b[Len(b)] + 3 * BytesToField(SubSeq(b, 1, Len(b) - 1))

----------------------------------------------------------------------------
\* Challenge hasher (spec 4.3) and credential codec (spec 4.7).

challenge(R, pk, msg) ==
    (2 * R + 3 * pk + BytesToField(msg) + 1) % curveOrder

createCredentialSubject(id, firstName, lastName, nationalId, birthTimestamp) ==
    [id |-> stringToBytes32(id),
     first_name |-> stringToBytes32(firstName),
     last_name |-> stringToBytes32(lastName),
     national_identifier |-> stringToBytes32(nationalId),
     birth_timestamp |-> birthTimestamp]

\* a credential subject and the copy of it whose first_name was changed
Subject == createCredentialSubject(<<1>>, <<1>>, <<1>>, <<1>>, 1)

Tampered == [Subject EXCEPT !.first_name = stringToBytes32(<<2>>)]

Subjects == {Subject, Tampered}

\* subject_hash circuit: a structural hash over all five fields, tagged so
\* that it differs from the hash of the bare fields.  The fields are placed
\* at the digits of a number in base HashRadix, which keeps any two subjects
\* apart whose field values are below HashRadix; the digest is that number
\* written in BYTES32 bytes.
HashRadix == 9

HashTag == 1

RECURSIVE Pow(_, _)
Pow(b, n) == IF n = 0 THEN 1 ELSE b * Pow(b, n - 1)

subject_hash(c) ==
    LET h == HashTag + BytesToField(c.id)
             + HashRadix * BytesToField(c.first_name)
             + Pow(HashRadix, 2) * BytesToField(c.last_name)
             + Pow(HashRadix, 3) * BytesToField(c.national_identifier)
             + Pow(HashRadix, 4) * c.birth_timestamp
    IN  [i \in 1 .. BYTES32 |-> (h \div Pow(256, BYTES32 - i)) % 256]

----------------------------------------------------------------------------
\* Witnesses (src/src/witnesses.ts).

\* a localSigningKey witness that hands every simulator the authority key
localSigningKey_fairway(privateState) ==
    <<privateState, FAIRWAY_SECRET_KEY>>

\* a localSigningKey witness that reads only the low part of the stored key
localSigningKey_low(privateState) ==
    <<privateState, privateState.localSigningKey % 4>>

\* a localSigningKey witness that hands the circuit another scalar than the
\* one the simulator was constructed with
localSigningKey_other(privateState) ==
    <<privateState, (privateState.localSigningKey % (curveOrder - 1)) + 1>>

localSigningKey(privateState) ==
    <<privateState, privateState.localSigningKey>>

\* a signingNonce witness that keeps the value it generated in the private
\* state
signingNonce_store(privateState, generated) ==
    <<[privateState EXCEPT !.signingNonce = generated], generated>>

\* generated is the value of the witness's own randomBytes(32) call
signingNonce(privateState, generated) ==
    <<privateState, generated>>

----------------------------------------------------------------------------
\* The contract: ledger state and circuits.

\* Contract.initialState: the registry starts empty; fairway_pk is the public
\* key of the constructor's localSigningKey
initialState(privateState) ==
    [nextNonce |-> 0,
     consumed |-> {},
     fairway_pk |-> ec_mul(privateState.localSigningKey, G)]

\* ephemeral scalar k # 0 from the key, the registry nonce and the randomness
EphemeralScalar(sk, nonceValue, rnd) ==
    ((sk + 2 * nonceValue + 3 * rnd) % (curveOrder - 1)) + 1

\* registry.issue(): returns nextNonce, then increments it
issue(ledger) ==
    [value |-> ledger.nextNonce,
     ledger |-> [ledger EXCEPT !.nextNonce = ledger.nextNonce + 1]]

\* registry.tryConsume(n)
tryConsume(ledger, n) ==
    IF n \notin ledger.consumed
    THEN [ok |-> TRUE, ledger |-> [ledger EXCEPT !.consumed = @ \cup {n}]]
    ELSE [ok |-> FALSE, ledger |-> ledger]

\* a sign circuit that puts the ledger's fairway_pk into the signature
sign_ledgerPk(context, msg, generated) ==
    LET w1 == localSigningKey(context.currentPrivateState)
        sk == w1[2]
        pk == derive_pk(sk)
        nv == issue(context.transactionContext)
        w2 == signingNonce(w1[1], generated)
        k  == EphemeralScalar(sk, nv.value, w2[2])
        R  == ec_mul(k, G)
        e  == challenge(R, pk.result, msg)
        s  == (k + e * sk) % curveOrder
    IN  IF ~pk.ok
        THEN [ok |-> FALSE, result |-> Null, context |-> context]
        ELSE [ok |-> TRUE,
              result |-> [pk |-> context.transactionContext.fairway_pk,
                          R |-> R, s |-> s, nonce |-> nv.value],
              context |-> [context EXCEPT !.currentPrivateState = w2[1],
                                          !.transactionContext = nv.ledger]]

\* sign circuit (spec 4.5).  A circuit works on a copy of the context it is
\* given and returns it; originalState is the state the call started from and
\* stays as it was, the new ledger state is in transactionContext.
sign(context, msg, generated) ==
    LET w1 == localSigningKey(context.currentPrivateState)
        sk == w1[2]
        pk == derive_pk(sk)
        nv == issue(context.transactionContext)
        w2 == signingNonce(w1[1], generated)
        k  == EphemeralScalar(sk, nv.value, w2[2])
        R  == ec_mul(k, G)
        e  == challenge(R, pk.result, msg)
        s  == (k + e * sk) % curveOrder
    IN  IF ~pk.ok
        THEN [ok |-> FALSE, result |-> Null, context |-> context]
        ELSE [ok |-> TRUE,
              result |-> [pk |-> pk.result, R |-> R, s |-> s, nonce |-> nv.value],
              context |-> [context EXCEPT !.currentPrivateState = w2[1],
                                          !.transactionContext = nv.ledger]]

\* a value that is no Signature; the circuit's argument check throws on it
Malformed == [pk |-> -1, R |-> -1, s |-> -1, nonce |-> -1]

\* the Schnorr equation s*G = R + e*pk
SchnorrEquation(msg, sig) ==
    ec_mul(sig.s, G) = ec_add(sig.R, ec_mul(challenge(sig.R, sig.pk, msg), sig.pk))

\* verify_signature circuit (spec 4.6); it returns nothing and throws on
\* failure.  Only the authority's public key is accepted.
verify_signature(context, msg, sig) ==
    LET ledger == context.transactionContext
        c == tryConsume(ledger, sig.nonce)
    IN  IF sig = Malformed
           \/ ~SchnorrEquation(msg, sig)
           \/ sig.pk # ledger.fairway_pk
           \/ ~c.ok
        THEN [ok |-> FALSE, context |-> context]
        ELSE [ok |-> TRUE,
              context |-> [context EXCEPT !.transactionContext = c.ledger]]

----------------------------------------------------------------------------
\* SchnorrSimulator.

live(i) == circuitContext[i] # Null

\* this.circuitContext.transactionContext.state of a constructed simulator
registry(i) == circuitContext[i].transactionContext

\* the public key the ledger was initialised with
AuthorityPk == ec_mul(FAIRWAY_SECRET_KEY, G)

IssuedSigs == {r.sig : r \in issued}

\* inputs a caller can hand to a verify operation: the signatures issued so
\* far, copies of them with the public key replaced, and a value that is no
\* signature
SigInputs ==
    IssuedSigs
    \cup {[g EXCEPT !.pk = ec_mul(k, G)] : g \in IssuedSigs, k \in Keys \ {0}}
    \cup {Malformed}

\* how many signatures simulator i has returned so far
SignedBy(i) == Cardinality({r \in issued : r.by = i})

\* how often simulator i has returned true for signature g
Took(i, g) == IF g \in DOMAIN took[i] THEN took[i][g] ELSE 0

\* the state a call of simulator i starts from
Pre(i) == [context |-> circuitContext[i], shared |-> sharedLedgerState]

Init ==
    /\ sharedContract = FALSE
    /\ sharedLedgerState = Null
    /\ circuitContext = [i \in Sims |-> Null]
    /\ issued = {}
    /\ last = [op |-> "none", sim |-> "none", res |-> "none",
               data |-> <<>>, sig |-> Malformed, pre |-> Null]
    /\ took = [i \in Sims |-> <<>>]

\* a shared-contract initialisation that uses another key than
\* FAIRWAY_SECRET_KEY
SharedAfterConstruct_other ==
    IF ~sharedContract
    THEN initialState([localSigningKey |-> FAIRWAY_SECRET_KEY + 1])
    ELSE sharedLedgerState

\* what the constructor leaves in the static sharedLedgerState
SharedAfterConstruct ==
    IF ~sharedContract
    THEN initialState([localSigningKey |-> FAIRWAY_SECRET_KEY])
    ELSE sharedLedgerState

\* new SchnorrSimulator(secretKey)
constructor(i, secretKey, rnd) ==
    /\ ~live(i)
    /\ sharedContract' = TRUE
    /\ sharedLedgerState' = SharedAfterConstruct
    /\ circuitContext' = [circuitContext EXCEPT ![i] =
          [currentPrivateState |->
              [localSigningKey |-> secretKey, signingNonce |-> rnd],
           originalState |-> SharedAfterConstruct,
           transactionContext |-> SharedAfterConstruct]]
    /\ last' = [op |-> "constructor", sim |-> i, res |-> "none",
                data |-> <<>>, sig |-> Malformed, pre |-> Null]
    /\ UNCHANGED <<issued, took>>

\* a SignWith that rebuilds the context from the static sharedLedgerState
\* before it calls the circuit
SignWith_reload(i, op, data, freshNonce, generated) ==
    LET contextWithFreshNonce ==
            [circuitContext[i] EXCEPT
                !.currentPrivateState.signingNonce = freshNonce,
                !.originalState = sharedLedgerState,
                !.transactionContext = sharedLedgerState]
        result == sign(contextWithFreshNonce, data, generated)
    IN  IF result.ok
        THEN /\ sharedLedgerState' = result.context.originalState
             /\ circuitContext' = [circuitContext EXCEPT ![i] = result.context]
             /\ issued' = issued \cup
                    {[sig |-> result.result, msg |-> data, by |-> i,
                      op |-> op, ord |-> SignedBy(i)]}
             /\ last' = [op |-> op, sim |-> i, res |-> "signature",
                         data |-> data, sig |-> result.result, pre |-> Pre(i)]
        ELSE /\ last' = [op |-> op, sim |-> i, res |-> "throw",
                         data |-> data, sig |-> Malformed, pre |-> Pre(i)]
             /\ UNCHANGED <<sharedLedgerState, circuitContext, issued>>

\* a SignWith that stores the context it prepared for the circuit before the
\* circuit has returned
SignWith_storeFirst(i, op, data, freshNonce, generated) ==
    LET contextWithFreshNonce ==
            [circuitContext[i] EXCEPT
                !.currentPrivateState.signingNonce = freshNonce,
                !.transactionContext =
                    issue(circuitContext[i].transactionContext).ledger]
        result == sign(circuitContext[i], data, generated)
    IN  IF result.ok
        THEN /\ sharedLedgerState' = result.context.originalState
             /\ circuitContext' = [circuitContext EXCEPT ![i] = result.context]
             /\ issued' = issued \cup
                    {[sig |-> result.result, msg |-> data, by |-> i,
                      op |-> op, ord |-> SignedBy(i)]}
             /\ last' = [op |-> op, sim |-> i, res |-> "signature",
                         data |-> data, sig |-> result.result, pre |-> Pre(i)]
        ELSE /\ last' = [op |-> op, sim |-> i, res |-> "throw",
                         data |-> data, sig |-> Malformed, pre |-> Pre(i)]
             /\ circuitContext' =
                    [circuitContext EXCEPT ![i] = contextWithFreshNonce]
             /\ UNCHANGED <<sharedLedgerState, issued>>

\* a SignWith that records the issued nonce as consumed
SignWith_consume(i, op, data, freshNonce, generated) ==
    LET contextWithFreshNonce ==
            [circuitContext[i] EXCEPT
                !.currentPrivateState.signingNonce = freshNonce]
        result == sign(contextWithFreshNonce, data, generated)
    IN  IF result.ok
        THEN /\ sharedLedgerState' = result.context.originalState
             /\ circuitContext' = [circuitContext EXCEPT ![i] =
                    [result.context EXCEPT !.transactionContext.consumed =
                        @ \cup {result.result.nonce}]]
             /\ issued' = issued \cup
                    {[sig |-> result.result, msg |-> data, by |-> i,
                      op |-> op, ord |-> SignedBy(i)]}
             /\ last' = [op |-> op, sim |-> i, res |-> "signature",
                         data |-> data, sig |-> result.result, pre |-> Pre(i)]
        ELSE /\ last' = [op |-> op, sim |-> i, res |-> "throw",
                         data |-> data, sig |-> Malformed, pre |-> Pre(i)]
             /\ UNCHANGED <<sharedLedgerState, circuitContext, issued>>

\* the circuit call of signMessage / signCredentialSubject on the context
\* with the fresh signingNonce, and the write-back of its result
SignWith(i, op, data, freshNonce, generated) ==
    LET contextWithFreshNonce ==
            [circuitContext[i] EXCEPT
                !.currentPrivateState.signingNonce = freshNonce]
        result == sign(contextWithFreshNonce, data, generated)
    IN  IF result.ok
        THEN /\ sharedLedgerState' = result.context.originalState
             /\ circuitContext' = [circuitContext EXCEPT ![i] = result.context]
             /\ issued' = issued \cup
                    {[sig |-> result.result, msg |-> data, by |-> i,
                      op |-> op, ord |-> SignedBy(i)]}
             /\ last' = [op |-> op, sim |-> i, res |-> "signature",
                         data |-> data, sig |-> result.result, pre |-> Pre(i)]
        ELSE /\ last' = [op |-> op, sim |-> i, res |-> "throw",
                         data |-> data, sig |-> Malformed, pre |-> Pre(i)]
             /\ UNCHANGED <<sharedLedgerState, circuitContext, issued>>

signMessage(i, message, freshNonce, generated) ==
    /\ live(i)
    /\ Cardinality(issued) < MaxSigs
    /\ SignWith(i, "signMessage", stringToBytes32(message), freshNonce, generated)
    /\ UNCHANGED <<sharedContract, took>>

\* a hashCredentialSubject that leaves first_name out of the digest
hashCredentialSubject_noName(i, credential) ==
    subject_hash([credential EXCEPT !.first_name = stringToBytes32(<<>>)])

hashCredentialSubject(i, credential) == subject_hash(credential)

signCredentialSubject(i, credential, freshNonce, generated) ==
    /\ live(i)
    /\ Cardinality(issued) < MaxSigs
    /\ SignWith(i, "signCredentialSubject", hashCredentialSubject(i, credential),
                freshNonce, generated)
    /\ UNCHANGED <<sharedContract, took>>

\* a VerifyWith that returns true without storing the circuit's context
VerifyWith_discard(i, op, data, signature) ==
    LET result == verify_signature(circuitContext[i], data, signature)
    IN  IF result.ok
        THEN /\ sharedLedgerState' = result.context.originalState
             /\ circuitContext' = circuitContext
             /\ last' = [op |-> op, sim |-> i, res |-> "true",
                         data |-> data, sig |-> signature, pre |-> Pre(i)]
             /\ took' = [took EXCEPT ![i] =
                    [g \in DOMAIN took[i] \cup {signature} |->
                        IF g = signature THEN Took(i, g) + 1 ELSE took[i][g]]]
        ELSE /\ last' = [op |-> op, sim |-> i, res |-> "false",
                         data |-> data, sig |-> signature, pre |-> Pre(i)]
             /\ UNCHANGED <<sharedLedgerState, circuitContext, took>>

\* a VerifyWith that hands the circuit the ledger state the context was
\* created from
VerifyWith_original(i, op, data, signature) ==
    LET result == verify_signature([circuitContext[i] EXCEPT
                      !.transactionContext = circuitContext[i].originalState], data, signature)
    IN  IF result.ok
        THEN /\ sharedLedgerState' = result.context.originalState
             /\ circuitContext' = [circuitContext EXCEPT ![i] = result.context]
             /\ last' = [op |-> op, sim |-> i, res |-> "true",
                         data |-> data, sig |-> signature, pre |-> Pre(i)]
             /\ took' = [took EXCEPT ![i] =
                    [g \in DOMAIN took[i] \cup {signature} |->
                        IF g = signature THEN Took(i, g) + 1 ELSE took[i][g]]]
        ELSE /\ last' = [op |-> op, sim |-> i, res |-> "false",
                         data |-> data, sig |-> signature, pre |-> Pre(i)]
             /\ UNCHANGED <<sharedLedgerState, circuitContext, took>>

\* a VerifyWith that records the signature's nonce as consumed whatever the
\* circuit answers
VerifyWith_consume(i, op, data, signature) ==
    LET result == verify_signature(circuitContext[i], data, signature)
    IN  IF result.ok
        THEN /\ sharedLedgerState' = result.context.originalState
             /\ circuitContext' = [circuitContext EXCEPT ![i] = result.context]
             /\ last' = [op |-> op, sim |-> i, res |-> "true",
                         data |-> data, sig |-> signature, pre |-> Pre(i)]
             /\ took' = [took EXCEPT ![i] =
                    [g \in DOMAIN took[i] \cup {signature} |->
                        IF g = signature THEN Took(i, g) + 1 ELSE took[i][g]]]
        ELSE /\ last' = [op |-> op, sim |-> i, res |-> "false",
                         data |-> data, sig |-> signature, pre |-> Pre(i)]
             /\ circuitContext' = [circuitContext EXCEPT
                    ![i].transactionContext.consumed = @ \cup {signature.nonce}]
             /\ UNCHANGED <<sharedLedgerState, took>>

\* a VerifyWith whose catch block returns true
VerifyWith_acceptAll(i, op, data, signature) ==
    LET result == verify_signature(circuitContext[i], data, signature)
    IN  /\ sharedLedgerState' =
              IF result.ok THEN result.context.originalState
              ELSE sharedLedgerState
        /\ circuitContext' = [circuitContext EXCEPT ![i] = result.context]
        /\ last' = [op |-> op, sim |-> i, res |-> "true",
                    data |-> data, sig |-> signature, pre |-> Pre(i)]
        /\ took' = [took EXCEPT ![i] =
               [g \in DOMAIN took[i] \cup {signature} |->
                   IF g = signature THEN Took(i, g) + 1 ELSE took[i][g]]]

\* a VerifyWith that also requires the signature's pk to be the public key
\* of the verifying simulator's own secret key
VerifyWith_ownKey(i, op, data, signature) ==
    LET result == verify_signature(circuitContext[i], data, signature)
        own == derive_pk(circuitContext[i].currentPrivateState.localSigningKey)
    IN  IF result.ok /\ own.ok /\ own.result = signature.pk
        THEN /\ sharedLedgerState' = result.context.originalState
             /\ circuitContext' = [circuitContext EXCEPT ![i] = result.context]
             /\ last' = [op |-> op, sim |-> i, res |-> "true",
                         data |-> data, sig |-> signature, pre |-> Pre(i)]
             /\ took' = [took EXCEPT ![i] =
                    [g \in DOMAIN took[i] \cup {signature} |->
                        IF g = signature THEN Took(i, g) + 1 ELSE took[i][g]]]
        ELSE /\ last' = [op |-> op, sim |-> i, res |-> "false",
                         data |-> data, sig |-> signature, pre |-> Pre(i)]
             /\ UNCHANGED <<sharedLedgerState, circuitContext, took>>

\* a VerifyWith that on success records every nonce up to the accepted one
\* as consumed
VerifyWith_consumeBelow(i, op, data, signature) ==
    LET result == verify_signature(circuitContext[i], data, signature)
    IN  IF result.ok
        THEN /\ sharedLedgerState' = result.context.originalState
             /\ circuitContext' = [circuitContext EXCEPT ![i] =
                    [result.context EXCEPT !.transactionContext.consumed =
                        @ \cup (0 .. signature.nonce)]]
             /\ last' = [op |-> op, sim |-> i, res |-> "true",
                         data |-> data, sig |-> signature, pre |-> Pre(i)]
             /\ took' = [took EXCEPT ![i] =
                    [g \in DOMAIN took[i] \cup {signature} |->
                        IF g = signature THEN Took(i, g) + 1 ELSE took[i][g]]]
        ELSE /\ last' = [op |-> op, sim |-> i, res |-> "false",
                         data |-> data, sig |-> signature, pre |-> Pre(i)]
             /\ UNCHANGED <<sharedLedgerState, circuitContext, took>>

\* a VerifyWith that on success stores a context whose nextNonce moved on
VerifyWith_issue(i, op, data, signature) ==
    LET result == verify_signature(circuitContext[i], data, signature)
    IN  IF result.ok
        THEN /\ sharedLedgerState' = result.context.originalState
             /\ circuitContext' = [circuitContext EXCEPT ![i] =
                    [result.context EXCEPT !.transactionContext =
                        issue(result.context.transactionContext).ledger]]
             /\ last' = [op |-> op, sim |-> i, res |-> "true",
                         data |-> data, sig |-> signature, pre |-> Pre(i)]
             /\ took' = [took EXCEPT ![i] =
                    [g \in DOMAIN took[i] \cup {signature} |->
                        IF g = signature THEN Took(i, g) + 1 ELSE took[i][g]]]
        ELSE /\ last' = [op |-> op, sim |-> i, res |-> "false",
                         data |-> data, sig |-> signature, pre |-> Pre(i)]
             /\ UNCHANGED <<sharedLedgerState, circuitContext, took>>

\* a VerifyWith without the catch: the circuit's error reaches the caller
VerifyWith_rethrow(i, op, data, signature) ==
    LET result == verify_signature(circuitContext[i], data, signature)
    IN  IF result.ok
        THEN /\ sharedLedgerState' = result.context.originalState
             /\ circuitContext' = [circuitContext EXCEPT ![i] = result.context]
             /\ last' = [op |-> op, sim |-> i, res |-> "true",
                         data |-> data, sig |-> signature, pre |-> Pre(i)]
             /\ took' = [took EXCEPT ![i] =
                    [g \in DOMAIN took[i] \cup {signature} |->
                        IF g = signature THEN Took(i, g) + 1 ELSE took[i][g]]]
        ELSE /\ last' = [op |-> op, sim |-> i, res |-> "throw",
                         data |-> data, sig |-> signature, pre |-> Pre(i)]
             /\ UNCHANGED <<sharedLedgerState, circuitContext, took>>

\* the try / catch around the verify_signature circuit call
VerifyWith(i, op, data, signature) ==
    LET result == verify_signature(circuitContext[i], data, signature)
    IN  IF result.ok
        THEN /\ sharedLedgerState' = result.context.originalState
             /\ circuitContext' = [circuitContext EXCEPT ![i] = result.context]
             /\ last' = [op |-> op, sim |-> i, res |-> "true",
                         data |-> data, sig |-> signature, pre |-> Pre(i)]
             /\ took' = [took EXCEPT ![i] =
                    [g \in DOMAIN took[i] \cup {signature} |->
                        IF g = signature THEN Took(i, g) + 1 ELSE took[i][g]]]
        ELSE /\ last' = [op |-> op, sim |-> i, res |-> "false",
                         data |-> data, sig |-> signature, pre |-> Pre(i)]
             /\ UNCHANGED <<sharedLedgerState, circuitContext, took>>

verifySignature(i, message, signature) ==
    /\ live(i)
    /\ VerifyWith(i, "verifySignature", stringToBytes32(message), signature)
    /\ UNCHANGED <<sharedContract, issued>>

verifySignedCredential(i, signedCredential) ==
    /\ live(i)
    /\ VerifyWith(i, "verifySignedCredential",
                  hashCredentialSubject(i, signedCredential.subject),
                  signedCredential.signature)
    /\ UNCHANGED <<sharedContract, issued>>

\* The message protocol: construction, signMessage and verifySignature.
Next ==
    \/ \E i \in Sims, k \in Keys, r \in randomBytes : constructor(i, k, r)
    \/ \E i \in Sims, m \in Msgs, f \in randomBytes, g \in randomBytes :
          signMessage(i, m, f, g)
    \/ \E i \in Sims, m \in Msgs, g \in SigInputs : verifySignature(i, m, g)

Spec == Init /\ [][Next]_vars

\* The message protocol together with the credential operations.
NextCredential ==
    \/ \E i \in Sims, k \in Keys, r \in randomBytes : constructor(i, k, r)
    \/ \E i \in Sims, m \in Msgs, f \in randomBytes, g \in randomBytes :
          signMessage(i, m, f, g)
    \/ \E i \in Sims, m \in Msgs, g \in SigInputs : verifySignature(i, m, g)
    \/ \E i \in Sims, f \in randomBytes, g \in randomBytes :
          signCredentialSubject(i, Subject, f, g)
    \/ \E i \in Sims, c \in Subjects, g \in SigInputs :
          verifySignedCredential(i, [subject |-> c, signature |-> g])

SpecCredential == Init /\ [][NextCredential]_vars

\* ---------------------------------------------------------------------
\* The earlier shared-ledger simulator: its signCredentialSubject signs the
\* hex text of the digest through signMessage, discards that signature, and
\* then signs the digest itself.

HexChar(d) == IF d < 10 THEN 48 + d ELSE 87 + d

RECURSIVE ToHex(_)
ToHex(b) ==
    IF b = <<>> THEN <<>>
    ELSE <<HexChar(b[1] \div 16), HexChar(b[1] % 16)>> \o ToHex(Tail(b))

signCredentialSubject_v1(i, credential, generated1, generated2) ==
    LET credentialHash == hashCredentialSubject(i, credential)
        signature == sign(circuitContext[i],
                          stringToBytes32(ToHex(credentialHash)), generated1)
        result == sign(signature.context, credentialHash, generated2)
    IN  /\ live(i)
        /\ Cardinality(issued) < MaxSigs
        /\ IF signature.ok /\ result.ok
           THEN /\ sharedLedgerState' = result.context.originalState
                /\ circuitContext' =
                       [circuitContext EXCEPT ![i] = result.context]
                /\ issued' = issued \cup
                       {[sig |-> result.result, msg |-> credentialHash,
                         by |-> i, op |-> "signCredentialSubject",
                         ord |-> SignedBy(i)]}
                /\ last' = [op |-> "signCredentialSubject", sim |-> i,
                            res |-> "signature", data |-> credentialHash,
                            sig |-> result.result, pre |-> Pre(i)]
           ELSE /\ last' = [op |-> "signCredentialSubject", sim |-> i,
                            res |-> "throw", data |-> credentialHash,
                            sig |-> Malformed, pre |-> Pre(i)]
                /\ UNCHANGED <<sharedLedgerState, circuitContext, issued>>
        /\ UNCHANGED <<sharedContract, took>>

NextV1 ==
    \/ \E i \in Sims, k \in Keys, r \in randomBytes : constructor(i, k, r)
    \/ \E i \in Sims, m \in Msgs, f \in randomBytes, g \in randomBytes :
          signMessage(i, m, f, g)
    \/ \E i \in Sims, m \in Msgs, g \in SigInputs : verifySignature(i, m, g)
    \/ \E i \in Sims, g1 \in randomBytes, g2 \in randomBytes :
          signCredentialSubject_v1(i, Subject, g1, g2)

SpecV1 == Init /\ [][NextV1]_vars

\* ---------------------------------------------------------------------
\* Keys above the curve order, and derivePublicKey.

\* a derivePublicKey that returns the public key stored in the ledger
derivePublicKey_ledger(i) ==
    LET result == derive_pk(circuitContext[i].currentPrivateState.localSigningKey)
    IN  /\ live(i)
        /\ last' = [op |-> "derivePublicKey", sim |-> i,
                    res |-> IF result.ok THEN "point" ELSE "throw",
                    data |-> IF result.ok
                             THEN <<circuitContext[i].transactionContext.fairway_pk>>
                             ELSE <<>>,
                    sig |-> Malformed, pre |-> Pre(i)]
        /\ UNCHANGED <<sharedContract, sharedLedgerState, circuitContext,
                       issued, took>>

\* a derivePublicKey that takes the public key from a signature over the
\* empty message and keeps the context the sign circuit returns
derivePublicKey_sign(i) ==
    LET result == sign(circuitContext[i], stringToBytes32(<<>>), 0)
    IN  /\ live(i)
        /\ last' = [op |-> "derivePublicKey", sim |-> i,
                    res |-> IF result.ok THEN "point" ELSE "throw",
                    data |-> IF result.ok THEN <<result.result.pk>> ELSE <<>>,
                    sig |-> Malformed, pre |-> Pre(i)]
        /\ circuitContext' = [circuitContext EXCEPT ![i] = result.context]
        /\ UNCHANGED <<sharedContract, sharedLedgerState, issued, took>>

derivePublicKey(i) ==
    LET result == derive_pk(circuitContext[i].currentPrivateState.localSigningKey)
    IN  /\ live(i)
        /\ last' = [op |-> "derivePublicKey", sim |-> i,
                    res |-> IF result.ok THEN "point" ELSE "throw",
                    data |-> IF result.ok THEN <<result.result>> ELSE <<>>,
                    sig |-> Malformed, pre |-> Pre(i)]
        /\ UNCHANGED <<sharedContract, sharedLedgerState, circuitContext,
                       issued, took>>

NextKeys ==
    \/ \E i \in Sims, k \in Keys \cup {MaxKey}, r \in randomBytes :
          constructor(i, k, r)
    \/ \E i \in Sims : derivePublicKey(i)
    \/ \E i \in Sims, m \in Msgs, f \in randomBytes, g \in randomBytes :
          signMessage(i, m, f, g)
    \/ \E i \in Sims, m \in Msgs, g \in SigInputs : verifySignature(i, m, g)

SpecKeys == Init /\ [][NextKeys]_vars

\* ---------------------------------------------------------------------
\* hashCredentialSubject on its own.

\* subjects that differ from one another in one or more of the five fields
HashSubjects ==
    {createCredentialSubject(a, b, c, d, t) :
        a \in {<<1>>, <<2>>}, b \in {<<1>>, <<2>>}, c \in {<<1>>, <<2>>},
        d \in {<<1>>, <<2>>}, t \in {1, 2}}

\* a call of simulator.hashCredentialSubject(credential)
hashCredentialSubjectCall(i, credential) ==
    /\ live(i)
    /\ last' = [op |-> "hashCredentialSubject", sim |-> i, res |-> "digest",
                data |-> hashCredentialSubject(i, credential),
                sig |-> Malformed, pre |-> Pre(i), subject |-> credential]
    /\ UNCHANGED <<sharedContract, sharedLedgerState, circuitContext,
                   issued, took>>

NextHash ==
    \/ \E i \in Sims, k \in Keys, r \in randomBytes : constructor(i, k, r)
    \/ \E i \in Sims, c \in HashSubjects : hashCredentialSubjectCall(i, c)

SpecHash == Init /\ [][NextHash]_vars

\* ---------------------------------------------------------------------
\* Messages and credentials together, with the message that is the text of
\* a credential digest.

DigestMessage == hashCredentialSubject("s1", Subject)

NextDomain ==
    \/ \E i \in Sims, k \in Keys, r \in randomBytes : constructor(i, k, r)
    \/ \E i \in Sims, f \in randomBytes, g \in randomBytes :
          signMessage(i, DigestMessage, f, g)
    \/ \E i \in Sims, f \in randomBytes, g \in randomBytes :
          signCredentialSubject(i, Subject, f, g)
    \/ \E i \in Sims, m \in {<<>>, DigestMessage}, g \in SigInputs :
          verifySignature(i, m, g)
    \/ \E i \in Sims, c \in Subjects, g \in SigInputs :
          verifySignedCredential(i, [subject |-> c, signature |-> g])

SpecDomain == Init /\ [][NextDomain]_vars

\* ---------------------------------------------------------------------
\* stringToBytes32 on its own.

MaxStr == 3

\* the encoded strings of up to MaxStr bytes over three byte values
Strings ==
    UNION {[1 .. n -> {0, 1, 2}] : n \in 0 .. MaxStr}

\* a call of simulator.stringToBytes32(str)
stringToBytes32Call(i, str) ==
    /\ live(i)
    /\ last' = [op |-> "stringToBytes32", sim |-> i, res |-> "bytes",
                data |-> stringToBytes32(str), sig |-> Malformed,
                pre |-> Pre(i), input |-> str]
    /\ UNCHANGED <<sharedContract, sharedLedgerState, circuitContext,
                   issued, took>>

NextEncode ==
    \/ \E i \in Sims, k \in Keys, r \in randomBytes : constructor(i, k, r)
    \/ \E i \in Sims, str \in Strings : stringToBytes32Call(i, str)

SpecEncode == Init /\ [][NextEncode]_vars

\* ---------------------------------------------------------------------
\* Signatures presented with another nonce.

\* copies of the issued signatures in which only the nonce was replaced
Renonced == {[g EXCEPT !.nonce = g.nonce + 1] : g \in IssuedSigs}

NextRenonce ==
    \/ \E i \in Sims, k \in Keys, r \in randomBytes : constructor(i, k, r)
    \/ \E i \in Sims, f \in randomBytes, g \in randomBytes :
          signMessage(i, <<>>, f, g)
    \/ \E i \in Sims, g \in IssuedSigs \cup Renonced :
          verifySignature(i, <<>>, g)

SpecRenonce == Init /\ [][NextRenonce]_vars

\* ---------------------------------------------------------------------
\* Two messages longer than 32 bytes with the same first 32 bytes: one is
\* signed, the other is presented to verifySignature; the empty message is
\* signed and presented as well.

LongSigned == Ones(BYTES32) \o <<1>>

LongPresented == Ones(BYTES32) \o <<2>>

NextLong ==
    \/ \E i \in Sims, k \in Keys, r \in randomBytes : constructor(i, k, r)
    \/ \E i \in Sims, m \in {<<>>, LongSigned}, f \in randomBytes,
          g \in randomBytes :
          signMessage(i, m, f, g)
    \/ \E i \in Sims, m \in {<<>>, LongPresented}, g \in SigInputs :
          verifySignature(i, m, g)

SpecLong == Init /\ [][NextLong]_vars

\* ---------------------------------------------------------------------
\* Verification against a public key the caller names.

\* the public keys a caller can name
PublicKeys == {ec_mul(k, G) : k \in Keys \ {0}}

\* { ...signature, pk: publicKey }; a value that is no signature stays none
modifiedSignature(signature, publicKey) ==
    IF signature = Malformed THEN Malformed
    ELSE [signature EXCEPT !.pk = publicKey]

\* a VerifyWithPublicKey that stores the context the circuit returns, as
\* verifySignature does
VerifyWithPublicKey_store(i, op, data, signature, publicKey) ==
    LET result == verify_signature(circuitContext[i], data,
                                   modifiedSignature(signature, publicKey))
    IN  /\ last' = [op |-> op, sim |-> i,
                    res |-> IF result.ok THEN "true" ELSE "false",
                    data |-> data,
                    sig |-> modifiedSignature(signature, publicKey),
                    pre |-> Pre(i)]
        /\ circuitContext' = [circuitContext EXCEPT ![i] = result.context]
        /\ UNCHANGED <<sharedContract, sharedLedgerState, issued, took>>

\* the try / catch of the two ...WithPublicKey operations: the circuit is
\* called on this.circuitContext and what it returns is dropped
VerifyWithPublicKey(i, op, data, signature, publicKey) ==
    LET result == verify_signature(circuitContext[i], data,
                                   modifiedSignature(signature, publicKey))
    IN  /\ last' = [op |-> op, sim |-> i,
                    res |-> IF result.ok THEN "true" ELSE "false",
                    data |-> data,
                    sig |-> modifiedSignature(signature, publicKey),
                    pre |-> Pre(i)]
        /\ UNCHANGED <<sharedContract, sharedLedgerState, circuitContext,
                       issued, took>>

verifySignedCredentialWithPublicKey(i, signedCredential, publicKey) ==
    /\ live(i)
    /\ VerifyWithPublicKey(i, "verifySignedCredentialWithPublicKey",
                           hashCredentialSubject(i, signedCredential.subject),
                           signedCredential.signature, publicKey)

verifySignatureWithPublicKey(i, message, signature, publicKey) ==
    /\ live(i)
    /\ VerifyWithPublicKey(i, "verifySignatureWithPublicKey",
                           stringToBytes32(message), signature, publicKey)

NextPublicKey ==
    \/ \E i \in Sims, k \in Keys, r \in randomBytes : constructor(i, k, r)
    \/ \E i \in Sims, m \in Msgs, f \in randomBytes, g \in randomBytes :
          signMessage(i, m, f, g)
    \/ \E i \in Sims, f \in randomBytes, g \in randomBytes :
          signCredentialSubject(i, Subject, f, g)
    \/ \E i \in Sims, m \in Msgs, g \in IssuedSigs : verifySignature(i, m, g)
    \/ \E i \in Sims, m \in Msgs, g \in IssuedSigs \cup {Malformed},
          pk \in PublicKeys :
          verifySignatureWithPublicKey(i, m, g, pk)
    \/ \E i \in Sims, c \in Subjects, g \in IssuedSigs \cup {Malformed},
          pk \in PublicKeys :
          verifySignedCredentialWithPublicKey(
              i, [subject |-> c, signature |-> g], pk)

SpecPublicKey == Init /\ [][NextPublicKey]_vars

\* ---------------------------------------------------------------------
\* The helper operations between sign and verify calls.

\* a call of simulator.createCredentialSubject(...)
createCredentialSubjectCall(i, id, firstName, lastName, nationalId, birthTimestamp) ==
    /\ live(i)
    /\ last' = [op |-> "createCredentialSubject", sim |-> i,
                res |-> "subject", data |-> <<>>, sig |-> Malformed,
                pre |-> Pre(i),
                subject |-> createCredentialSubject(id, firstName, lastName,
                                                    nationalId, birthTimestamp)]
    /\ UNCHANGED <<sharedContract, sharedLedgerState, circuitContext,
                   issued, took>>

NextHelpers ==
    \/ \E i \in Sims, k \in Keys, r \in randomBytes : constructor(i, k, r)
    \/ \E i \in Sims, m \in Msgs, f \in randomBytes, g \in randomBytes :
          signMessage(i, m, f, g)
    \/ \E i \in Sims, m \in Msgs, g \in SigInputs : verifySignature(i, m, g)
    \/ \E i \in Sims : derivePublicKey(i)
    \/ \E i \in Sims, c \in Subjects : hashCredentialSubjectCall(i, c)
    \/ \E i \in Sims, n \in {<<1>>, <<2>>} :
          createCredentialSubjectCall(i, <<1>>, n, <<1>>, <<1>>, 1)
    \/ \E i \in Sims, str \in Msgs : stringToBytes32Call(i, str)

SpecHelpers == Init /\ [][NextHelpers]_vars

\* ---------------------------------------------------------------------
\* Signing with two values of the randomness.

\* two values a randomBytes(32) call may return
NonceValues == {0, 1}

NextNonce ==
    \/ \E i \in Sims, k \in Keys \cup {MaxKey}, r \in NonceValues :
          constructor(i, k, r)
    \/ \E i \in Sims, f \in NonceValues, g \in NonceValues :
          signMessage(i, <<>>, f, g)
    \/ \E i \in Sims, g \in IssuedSigs : verifySignature(i, <<>>, g)

SpecNonce == Init /\ [][NextNonce]_vars

\* ---------------------------------------------------------------------
\* Properties

IsVerifyCall == last.op \in {"verifySignature", "verifySignedCredential"}

IsSignCall == last.op \in {"signMessage", "signCredentialSubject"}

\* the registry the last call started from
PreRegistry == last.pre.context.transactionContext

\* the secret key simulator i was constructed with
KeyOf(i) == circuitContext[i].currentPrivateState.localSigningKey

\* the Schnorr equation holds for a well-formed signature
Valid(msg, sig) == sig # Malformed /\ SchnorrEquation(msg, sig)

\* the last call verified the signature of record r against the message it
\* was signed for
Own(r) == r.sig = last.sig /\ r.msg = last.data

\* how often any simulator has returned true for signature g
Accepted(g) == Took("s1", g) + Took("s2", g)

\* no simulator had returned true for the signature before the last call
NotTakenBefore ==
    Accepted(last.sig) = (IF last.res = "true" THEN 1 ELSE 0)

Monotone(a, b) ==
    /\ a.nextNonce <= b.nextNonce
    /\ a.consumed \subseteq b.consumed

\* C1: on one simulator, no signature is accepted twice and no two accepted
\* signatures carry the same nonce: after a verify call has returned true,
\* every later verify call of that simulator with that nonce returns false.
C1_ReplayRejected ==
    \A i \in Sims : \A g \in DOMAIN took[i] : \A h \in DOMAIN took[i] :
        /\ took[i][g] = 1
        /\ g.nonce = h.nonce => g = h

\* a simulator rejects a signature whose equation holds and whose nonce it
\* accepted earlier, after two signatures were issued
C1_Witness ==
    /\ last.op = "verifySignature"
    /\ last.res = "false"
    /\ Valid(last.data, last.sig)
    /\ Cardinality(issued) = MaxSigs
    /\ \E g \in DOMAIN took[last.sim] : g.nonce = last.sig.nonce

\* C2: over all simulators together, at most one verify call returns true
\* for a given signature.
C2_AcceptedAtMostOnce ==
    \A i \in Sims : \A g \in DOMAIN took[i] : Accepted(g) <= 1

C4_TrueIffEquationAndFresh ==
    IsVerifyCall =>
        /\ last.res = "true" <=>
              /\ Valid(last.data, last.sig)
              /\ last.sig.nonce \notin PreRegistry.consumed
        /\ last.res = "true" =>
              last.sig.nonce \in registry(last.sim).consumed

\* C4: verify returns true exactly when the equation holds, the signature's
\* public key is the ledger's fairway_pk and the nonce is not in the calling
\* simulator's consumed set; a true verify leaves the nonce in that set.
C4_TrueIffEquationAuthorityAndFresh ==
    IsVerifyCall =>
        /\ last.res = "true" <=>
              /\ Valid(last.data, last.sig)
              /\ last.sig.pk = PreRegistry.fairway_pk
              /\ last.sig.nonce \notin PreRegistry.consumed
        /\ last.res = "true" =>
              last.sig.nonce \in registry(last.sim).consumed

\* a verify returned true and the nonce it found unconsumed is now consumed
C4_Witness ==
    /\ IsVerifyCall
    /\ last.res = "true"
    /\ last.sig.nonce \notin PreRegistry.consumed
    /\ last.sig.nonce \in registry(last.sim).consumed

\* C5: a verify call that returns false leaves the simulator's context and
\* the shared ledger state as they were, so that a signature the simulator
\* would accept against its own message is still accepted afterwards.
C5_FalseVerifyChangesNothing ==
    (IsVerifyCall /\ last.res = "false") =>
        /\ circuitContext[last.sim] = last.pre.context
        /\ sharedLedgerState = last.pre.shared
        /\ \A r \in issued :
              (r.sig = last.sig
                  /\ verify_signature(last.pre.context, r.msg, r.sig).ok)
                => verify_signature(circuitContext[last.sim], r.msg, r.sig).ok

\* a signature was rejected for a wrong message and the same simulator
\* would accept it against the message it was signed for
C5_Witness ==
    /\ IsVerifyCall
    /\ last.res = "false"
    /\ \E r \in issued :
          /\ r.sig = last.sig
          /\ r.msg # last.data
          /\ verify_signature(circuitContext[last.sim], r.msg, r.sig).ok

\* C6: the k-th signature a simulator returns carries nonce k, counting
\* from 0.
C6_ConsecutiveFromZero ==
    \A r \in issued : r.sig.nonce = r.ord

\* C7: no two returned signatures carry the same nonce, and a newly returned
\* signature's nonce is greater than that of every signature returned before.
C7_NoNonceIssuedTwice ==
    /\ \A r1 \in issued : \A r2 \in issued :
          r1.sig.nonce = r2.sig.nonce => r1 = r2
    /\ (IsSignCall /\ last.res = "signature") =>
          \A r \in issued : r.sig # last.sig => r.sig.nonce < last.sig.nonce

\* C8: no step lowers nextNonce or removes a nonce from the consumed set,
\* neither in the shared ledger state nor in any simulator's registry.
C8_NonceLifecycleMonotone ==
    [][ /\ sharedLedgerState # Null =>
              Monotone(sharedLedgerState, sharedLedgerState')
        /\ \A i \in Sims :
              live(i) => Monotone(registry(i), registry(i)') ]_vars

\* a simulator whose snapshot is behind another simulator's has signed and
\* written its result back
C8_Witness ==
    /\ last.res = "signature"
    /\ sharedLedgerState # Null
    /\ \E j \in Sims :
          /\ live(j)
          /\ j # last.sim
          /\ PreRegistry.nextNonce < registry(j).nextNonce
          /\ registry(j).consumed # {}

\* C9: verifySignature and verifySignedCredential return true or false for
\* every input, and true only when the verify_signature circuit completed.
C9_VerifyNeverThrows ==
    IsVerifyCall =>
        /\ last.res \in {"true", "false"}
        /\ last.res = "true" =>
              verify_signature(last.pre.context, last.data, last.sig).ok

\* verifySignedCredential was given a malformed signature and returned false
C9_Witness ==
    /\ last.op = "verifySignedCredential"
    /\ last.sig = Malformed
    /\ last.res = "false"

\* C10: a sign call of a simulator constructed with the zero key throws,
\* returns no signature, and leaves the simulator's context and the shared
\* ledger state as they were.
C10_ZeroKeySignFails ==
    (IsSignCall /\ KeyOf(last.sim) = 0) =>
        /\ last.res = "throw"
        /\ circuitContext[last.sim] = last.pre.context
        /\ registry(last.sim).nextNonce = PreRegistry.nextNonce
        /\ sharedLedgerState = last.pre.shared
        /\ \A r \in issued : r.by # last.sim

\* a simulator constructed with the zero key was asked to sign after another
\* simulator had signed
C10_Witness ==
    /\ IsSignCall
    /\ KeyOf(last.sim) = 0
    /\ last.res = "throw"
    /\ issued # {}

IsKeyCall == IsSignCall \/ last.op = "derivePublicKey"

C12_SameKeyDifferentNonce ==
    \A r1 \in issued : \A r2 \in issued :
        (r1 # r2 /\ KeyOf(r1.by) = KeyOf(r2.by)) =>
            /\ r1.sig.pk = r2.sig.pk
            /\ r1.sig.nonce # r2.sig.nonce

\* C13: a verify call with a message whose encoding differs from that of
\* the message the signature was issued for returns false.
C13_BoundToMessage ==
    \A r \in issued :
        (IsVerifyCall /\ r.sig = last.sig /\ r.msg # last.data)
            => last.res = "false"

\* an authority signature whose nonce is unconsumed was verified against
\* another message than its own and rejected
C13_Witness ==
    /\ IsVerifyCall
    /\ last.res = "false"
    /\ last.sig.pk = AuthorityPk
    /\ last.sig.nonce \notin PreRegistry.consumed
    /\ \E r \in issued :
          r.sig = last.sig /\ r.msg # last.data /\ Valid(r.msg, r.sig)

\* C14: verifySignature returns false for every signature whose pk is not
\* the public key of FAIRWAY_SECRET_KEY, also when the signature satisfies
\* the Schnorr equation for its own pk and its nonce is unconsumed.
C14_OnlyAuthorityAccepted ==
    (IsVerifyCall /\ last.sig # Malformed /\ last.sig.pk # AuthorityPk)
        => last.res = "false"

\* a signature of another key that satisfies the equation and whose nonce
\* is unconsumed was rejected
C14_Witness ==
    /\ last.op = "verifySignature"
    /\ last.sig.pk # AuthorityPk
    /\ Valid(last.data, last.sig)
    /\ last.sig.nonce \notin PreRegistry.consumed
    /\ last.res = "false"

\* the context c as held by a simulator constructed with secret key k
WithKey(c, k) == [c EXCEPT !.currentPrivateState.localSigningKey = k]

\* C15: the result of a verify call is the result the verify_signature
\* circuit gives for the same ledger state, message and signature under
\* any other secret key of the verifying simulator; a simulator holding any
\* key accepts an authority signature whose nonce it has not consumed.
C15_VerifyIgnoresOwnKey ==
    IsVerifyCall =>
        /\ \A k \in Keys \cup {MaxKey} :
              (last.res = "true") <=>
                  verify_signature(WithKey(last.pre.context, k),
                                   last.data, last.sig).ok
        /\ (Valid(last.data, last.sig)
                /\ last.sig.pk = AuthorityPk
                /\ last.sig.nonce \notin PreRegistry.consumed)
              => last.res = "true"

\* a simulator that does not hold the authority key accepted a signature
\* issued by another simulator
C15_Witness ==
    /\ IsVerifyCall
    /\ last.res = "true"
    /\ KeyOf(last.sim) # FAIRWAY_SECRET_KEY
    /\ \E r \in issued : Own(r) /\ r.by # last.sim

\* C16: an authority signature verified with its own message is accepted
\* whenever its own nonce is unconsumed, whatever other nonces (lower or
\* higher) the simulator has consumed; the accepted call consumes that nonce
\* only, and every other authority signature with an unconsumed nonce is
\* still accepted afterwards.
C16_AnyOrder ==
    (IsVerifyCall
        /\ last.sig.pk = AuthorityPk
        /\ last.sig.nonce \notin PreRegistry.consumed
        /\ \E r \in issued : Own(r))
      =>
        /\ last.res = "true"
        /\ registry(last.sim).consumed =
              PreRegistry.consumed \cup {last.sig.nonce}
        /\ \A r \in issued :
              (r.sig.pk = AuthorityPk
                  /\ r.sig.nonce \notin registry(last.sim).consumed)
                => verify_signature(circuitContext[last.sim], r.msg, r.sig).ok

\* the signature with nonce 0 is accepted after a higher nonce was consumed
C16_Witness ==
    /\ IsVerifyCall
    /\ last.res = "true"
    /\ last.sig.nonce = 0
    /\ \E n \in PreRegistry.consumed : n > last.sig.nonce

\* record r is a credential signature the authority issued for Subject, and
\* the last call verified it as a credential
CredentialCall(r) ==
    /\ last.op = "verifySignedCredential"
    /\ last.sig = r.sig
    /\ KeyOf(r.by) = FAIRWAY_SECRET_KEY
    /\ r.msg = hashCredentialSubject(r.by, Subject)

\* C17: for a credential signed by the authority, verifySignedCredential of
\* the copy with the changed first_name returns false and leaves the
\* registry as it was; the first verifySignedCredential of the original
\* returns true; and every later one returns false.
C17_CredentialScenario ==
    \A r \in issued :
        CredentialCall(r) =>
            /\ last.data = hashCredentialSubject(last.sim, Tampered) =>
                  /\ last.res = "false"
                  /\ circuitContext[last.sim] = last.pre.context
            /\ last.data = hashCredentialSubject(last.sim, Subject) =>
                  /\ NotTakenBefore => last.res = "true"
                  /\ Accepted(last.sig) <= 1

Digests == {hashCredentialSubject(i, c) : i \in Sims, c \in Subjects}

\* signCredentialSubject returns what the sign circuit returns for the
\* digest and stores the context it returns; verifySignedCredential returns
\* true exactly when the verify_signature circuit accepts the digest and
\* the signature, and stores the context it returns
C19_ThinComposition ==
    /\ (last.op = "signCredentialSubject" /\ last.res = "signature") =>
          \E f \in randomBytes : \E g \in randomBytes :
              LET result == sign([last.pre.context EXCEPT
                                     !.currentPrivateState.signingNonce = f],
                                 last.data, g)
              IN  /\ last.data \in Digests
                  /\ result.ok
                  /\ last.sig = result.result
                  /\ circuitContext[last.sim] = result.context
    /\ last.op = "verifySignedCredential" =>
          LET result == verify_signature(last.pre.context, last.data, last.sig)
          IN  /\ last.data \in Digests
              /\ last.res = (IF result.ok THEN "true" ELSE "false")
              /\ circuitContext[last.sim] = result.context

\* C19: the credential operations are the sign and verify circuits applied
\* to the digest, and no credential signature carries the nonce of a
\* message signature.
C19_OneNonceSequence ==
    /\ C19_ThinComposition
    /\ \A r1 \in issued : \A r2 \in issued :
          (r1.msg \in Digests /\ r2.msg \notin Digests)
              => r1.sig.nonce # r2.sig.nonce

\* C20: verifySignature never accepts a signature that signCredentialSubject
\* returned, and verifySignedCredential never accepts a signature that
\* signMessage returned.
C20_DomainSeparation ==
    \A r \in issued :
        (r.sig = last.sig
            /\ \/ last.op = "verifySignature"
                     /\ r.op = "signCredentialSubject"
               \/ last.op = "verifySignedCredential"
                     /\ r.op = "signMessage")
          => last.res = "false"

\* C21: stringToBytes32 returns BYTES32 bytes for every input: an input of
\* at most BYTES32 bytes followed by zero bytes, and the first BYTES32 bytes
\* of a longer input.
C21_EncoderPadsOrTruncates ==
    last.op = "stringToBytes32" =>
        /\ last.res = "bytes"
        /\ Len(last.data) = BYTES32
        /\ \A i \in 1 .. BYTES32 :
              last.data[i] = (IF i <= Len(last.input) THEN last.input[i] ELSE 0)

\* an input longer than BYTES32 bytes was encoded and lost its last byte
C21_Witness ==
    /\ last.op = "stringToBytes32"
    /\ Len(last.input) > BYTES32
    /\ last.input[Len(last.input)] # last.data[BYTES32]

\* the valid secret scalars
ValidScalars == 1 .. (curveOrder - 1)

\* C22: for a simulator holding a valid scalar, derivePublicKey returns, in
\* every ledger state and on every simulator, the point that derive_pk
\* gives for that scalar, and no other valid scalar has that point.
C22_DerivePkDeterministicInjective ==
    (last.op = "derivePublicKey" /\ KeyOf(last.sim) \in ValidScalars) =>
        /\ last.res = "point"
        /\ \A k \in ValidScalars :
              (last.data = <<derive_pk(k).result>>) <=> (k = KeyOf(last.sim))

\* a simulator that holds a valid key other than the authority's derived
\* its public key after its ledger copy had changed
C22_Witness ==
    /\ last.op = "derivePublicKey"
    /\ last.res = "point"
    /\ KeyOf(last.sim) \in ValidScalars \ {FAIRWAY_SECRET_KEY}
    /\ registry(last.sim).nextNonce > 0

\* C23: after a successful sign the returned nonce is not in the consumed
\* set, the consumed set is as before, and nextNonce is one more than
\* before.
C23_SignIssuesOnly ==
    (IsSignCall /\ last.res = "signature") =>
        /\ last.sig.nonce \notin registry(last.sim).consumed
        /\ registry(last.sim).consumed = PreRegistry.consumed
        /\ registry(last.sim).nextNonce = PreRegistry.nextNonce + 1

C25_SignatureWellFormed ==
    (IsSignCall /\ last.res = "signature") =>
        LET sk == KeyOf(last.sim)
            e == challenge(last.sig.R, last.sig.pk, last.data)
        IN  /\ last.sig.pk = ec_mul(sk % curveOrder, G)
            /\ \E k \in 1 .. (curveOrder - 1) :
                  /\ last.sig.R = ec_mul(k, G)
                  /\ last.sig.s = (k + e * sk) % curveOrder
            /\ SchnorrEquation(last.data, last.sig)

\* a simulator has returned its second signature
C25_Witness ==
    /\ IsSignCall
    /\ last.res = "signature"
    /\ last.sig.nonce = 1
    /\ Valid(last.data, last.sig)

\* C26: in the shared ledger state and in every simulator's registry every
\* consumed nonce is below nextNonce, and an accepted signature carries a
\* nonce the verifying registry has issued.
C26_OnlyIssuedConsumed ==
    /\ sharedLedgerState # Null =>
          \A n \in sharedLedgerState.consumed : n < sharedLedgerState.nextNonce
    /\ \A i \in Sims :
          live(i) => \A n \in registry(i).consumed : n < registry(i).nextNonce
    /\ (IsVerifyCall /\ last.res = "true") =>
          last.sig.nonce < PreRegistry.nextNonce

\* C27: a copy of an issued signature in which only the nonce was replaced
\* by a different value is rejected by verify.
C27_NonceBound ==
    \A r \in issued :
        (IsVerifyCall
            /\ last.sig \notin IssuedSigs
            /\ last.sig = [r.sig EXCEPT !.nonce = last.sig.nonce])
          => last.res = "false"

\* C28: the first verify of an authority signature of one long message,
\* presented with another long message that has the same first 32 bytes,
\* returns true.
C28_SharedPrefixInterchangeable ==
    /\ LongSigned # LongPresented
    /\ \A r \in issued :
          (last.op = "verifySignature"
              /\ last.data = stringToBytes32(LongPresented)
              /\ r.sig = last.sig
              /\ r.msg = stringToBytes32(LongSigned)
              /\ KeyOf(r.by) = FAIRWAY_SECRET_KEY
              /\ NotTakenBefore)
            => last.res = "true"

\* C29: no verify call changes nextNonce; a call that returns false leaves
\* the registry as it was, and a call that returns true changes it only by
\* adding the signature's nonce to the consumed set.
C29_VerifyNeverIssues ==
    IsVerifyCall =>
        /\ registry(last.sim).nextNonce = PreRegistry.nextNonce
        /\ last.res = "false" => registry(last.sim) = PreRegistry
        /\ last.res = "true" =>
              registry(last.sim) =
                  [PreRegistry EXCEPT !.consumed = @ \cup {last.sig.nonce}]

\* verifySignedCredential has accepted a signature on a simulator that had
\* issued nonces before
C29_Witness ==
    /\ last.op = "verifySignedCredential"
    /\ last.res = "true"
    /\ PreRegistry.nextNonce > 0
    /\ registry(last.sim).nextNonce = PreRegistry.nextNonce

\* the nonces consumed so far in any simulator's registry
ConsumedAnywhere ==
    UNION {registry(i).consumed : i \in {j \in Sims : live(j)}}

\* C30: after a successful sign or verify the shared ledger state is the
\* registry of the simulator that performed it, and a simulator constructed
\* afterwards starts from a registry whose nextNonce is above every nonce
\* issued so far and whose consumed set holds every nonce consumed so far.
C30_OneSharedLedger ==
    /\ last.res \in {"signature", "true"} =>
          sharedLedgerState = registry(last.sim)
    /\ last.op = "constructor" =>
          /\ \A r \in issued : r.sig.nonce < registry(last.sim).nextNonce
          /\ ConsumedAnywhere \subseteq registry(last.sim).consumed

\* C31: every sign or verify call starts from the current shared ledger
\* state: the registry in the calling simulator's circuitContext at the start
\* of the call is the static sharedLedgerState at that moment, whatever this
\* or another simulator has done before.
C31_ActsOnSharedState ==
    (IsSignCall \/ IsVerifyCall) => PreRegistry = last.pre.shared

IsPublicKeyCall ==
    last.op \in {"verifySignatureWithPublicKey",
                 "verifySignedCredentialWithPublicKey"}

\* C32: whatever a ...WithPublicKey call returns, the calling simulator's
\* circuitContext and the shared ledger state are what they were before the
\* call; no nonce is consumed, and the same call made again from the state
\* it leaves returns the same result.
C32_PublicKeyVerifyChangesNothing ==
    IsPublicKeyCall =>
        /\ circuitContext[last.sim] = last.pre.context
        /\ sharedLedgerState = last.pre.shared
        /\ registry(last.sim).consumed = PreRegistry.consumed
        /\ verify_signature(circuitContext[last.sim], last.data, last.sig).ok
              = (last.res = "true")

\* a ...WithPublicKey call has returned true on a simulator that had
\* consumed another nonce before, with a signature issued by the other
\* simulator
C32_Witness ==
    /\ IsPublicKeyCall
    /\ last.res = "true"
    /\ PreRegistry.consumed # {}
    /\ \E r \in issued : r.sig = last.sig /\ r.by # last.sim

HelperOps ==
    {"derivePublicKey", "hashCredentialSubject", "createCredentialSubject",
     "stringToBytes32"}

\* what a sign and a verify call of simulator i return in context table c for
\* every message, signature and randomness the model offers
Outcomes(c, i) ==
    [signs |-> [m \in Msgs |->
                  LET r == sign(c[i], stringToBytes32(m), 0)
                  IN  [ok |-> r.ok, result |-> r.result]],
     verifies |-> [m \in Msgs |-> [g \in SigInputs |->
                  verify_signature(c[i], stringToBytes32(m), g).ok]]]

\* C33: a step that is a call of derivePublicKey, hashCredentialSubject,
\* createCredentialSubject or stringToBytes32 leaves every simulator's
\* circuitContext (nextNonce and the consumed set with it), the shared
\* ledger state and the signatures issued as they were, and every sign and
\* verify call returns after it what it would have returned before it.
C33_HelpersArePure ==
    [][last'.op \in HelperOps =>
          /\ circuitContext' = circuitContext
          /\ sharedLedgerState' = sharedLedgerState
          /\ issued' = issued
          /\ \A i \in Sims :
                live(i) => Outcomes(circuitContext', i) = Outcomes(circuitContext, i)]_vars

\* a helper operation was called on a simulator that has issued a nonce and
\* consumed one
C33_Witness ==
    /\ last.op \in HelperOps
    /\ registry(last.sim).nextNonce > 0
    /\ registry(last.sim).consumed # {}

StoredNonce(i) == circuitContext[i].currentPrivateState.signingNonce

\* C35: the value the signingNonce witness hands to the sign circuit is the
\* fresh signingNonce that the sign operation placed in the private state
\* for the call: the R of the returned signature is the point of the
\* ephemeral scalar made from the key, the issued nonce and that value.
C35_WitnessSuppliesStoredNonce ==
    (IsSignCall /\ last.res = "signature") =>
        last.sig.R =
            ec_mul(EphemeralScalar(KeyOf(last.sim), last.sig.nonce,
                                   StoredNonce(last.sim)), G)

\* the private state the last call started from
PrePrivateState == last.pre.context.currentPrivateState

\* C36: for the private state of every simulator, localSigningKey returns
\* that private state and its stored key, and signingNonce returns that
\* private state, whatever value it generates; the sign circuit, which calls
\* both, returns the private state it was handed, so after a sign call the
\* simulator holds the key it held before.
C36_WitnessesKeepPrivateState ==
    /\ \A i \in Sims : live(i) =>
          LET p == circuitContext[i].currentPrivateState
          IN  /\ localSigningKey(p) = <<p, p.localSigningKey>>
              /\ \A g \in NonceValues : signingNonce(p, g)[1] = p
    /\ (IsSignCall /\ last.res = "signature") =>
          /\ KeyOf(last.sim) = PrePrivateState.localSigningKey
          /\ \A f \in NonceValues : \A g \in NonceValues :
                sign([last.pre.context EXCEPT
                         !.currentPrivateState.signingNonce = f],
                     last.data, g).context.currentPrivateState
                = [PrePrivateState EXCEPT !.signingNonce = f]

\* a simulator holding the all-0xFF key has signed; its private state held
\* another signingNonce before the call than after it
C36_Witness ==
    /\ IsSignCall
    /\ last.res = "signature"
    /\ KeyOf(last.sim) = MaxKey
    /\ StoredNonce(last.sim) # PrePrivateState.signingNonce

====
